---- MODULE Spec2Model ----
(***************************************************************************)
(* rss-gobbler: the concurrent download pipeline of src/src/app.rs. The    *)
(* earlier single-file revision src/src/main.rs holds the same functions   *)
(* without the AppConfig.                                                  *)
(*                                                                         *)
(*   SpecFetch : one call of get_redirect_until(url, client, max_hops)     *)
(*               against an arbitrary server.                              *)
(*   Spec      : one execution of run(config): feed acquisition, one       *)
(*               spawned task per item, collection of the outcomes.        *)
(***************************************************************************)
EXTENDS Integers, Sequences, FiniteSets, TLC

\* ------------------------------------------------------------------ bounds
\* largest max_hops argument tried in SpecFetch (the type is u8)
MaxHops == 3

\* hop budget handed to get_redirect_until by download_audio_file
HopBudget == 10

\* ------------------------------------------------------------ URIs, headers
\* hyper::Uri values, written in their Display form
AbsoluteUris == {"http://a/ep.mp3", "http://b/"}
RelativeUris == {"/moved.mp3"}
Uris == AbsoluteUris \cup RelativeUris

\* a response without a LOCATION header: headers().get(LOCATION) is None
NoHeader == [present |-> FALSE]

\* HeaderValue: raw bytes; visible is FALSE when some byte is outside
\* visible ASCII, which is when HeaderValue::to_str() fails
HeaderValues ==
    { [present |-> TRUE, visible |-> TRUE,  text |-> "http://a/ep.mp3"],
      [present |-> TRUE, visible |-> TRUE,  text |-> "http://b"],
      [present |-> TRUE, visible |-> TRUE,  text |-> "/moved.mp3"],
      [present |-> TRUE, visible |-> TRUE,  text |-> "http://[b"],
      [present |-> TRUE, visible |-> FALSE, text |-> "http://b/<ff>"] }

Headers == HeaderValues \cup {NoHeader}

\* str::parse::<Uri>(): an authority-only URL gets the path "/", a
\* path-only string is a relative Uri, an unbalanced bracket is rejected
ParseUri(text) ==
    CASE text = "http://a/ep.mp3" -> [ok |-> TRUE,  uri |-> "http://a/ep.mp3"]
      [] text = "http://a/feed"   -> [ok |-> TRUE,  uri |-> "http://a/feed"]
      [] text = "http://b"        -> [ok |-> TRUE,  uri |-> "http://b/"]
      [] text = "http://b/"       -> [ok |-> TRUE,  uri |-> "http://b/"]
      [] text = "/moved.mp3"      -> [ok |-> TRUE,  uri |-> "/moved.mp3"]
      [] OTHER                    -> [ok |-> FALSE, uri |-> ""]

\* ------------------------------------------------------------- responses
StatusCodes == {200, 299, 300, 301, 310, 311, 404}

\* a body is the sequence of items data() yields: a chunk or a read error
ReadError == "ReadError"
Bodies == { <<>>, <<"c1", "c2">>, <<"c1", ReadError>> }

\* client.get(..).await yields Err (connect, DNS, TLS, or a non-absolute
\* URI rejected by the client) or a response
TransportFailure == [transport |-> TRUE, status |-> 0, location |-> NoHeader, body |-> <<>>]

HttpResponses ==
    [transport : {FALSE}, status : StatusCodes, location : Headers, body : Bodies]

\* what client.get(uri).await can produce
Answers(uri) ==
    IF uri \in AbsoluteUris THEN HttpResponses \cup {TransportFailure}
    ELSE {TransportFailure}

\* ------------------------------------------------------- get_redirect_until
NoResult == [tag |-> "None"]
Ok(resp) == [tag |-> "Ok", resp |-> resp]
\* an error message formatted by get_redirect_until: it names a status
\* code (or max_hops), the location being requested and the original url
Err(kind, code, on, from) ==
    [tag |-> "Err", kind |-> kind, code |-> code, location |-> on, url |-> from]
\* an error of a library call boxed by `?`, or a message naming no request
WorkerErr(kind) == [tag |-> "Err", kind |-> kind]

\* mutant: every 3xx status taken for a redirect
IsRedirectStatus_Any3xx(code) == 300 <= code /\ code < 400

IsRedirectStatus(code) == 300 <= code /\ code <= 310

\* mutant: the loop written `0..=max_hops`
LoopHead_Inclusive(f) ==
    IF f.i <= f.max_hops
    THEN [f EXCEPT !.i = @ + 1, !.awaiting = TRUE, !.nreq = @ + 1]
    ELSE [f EXCEPT !.awaiting = FALSE,
                   !.result = Err("MaxRedirects", f.max_hops, f.location, f.url)]

\* mutant: the loop written `1..max_hops`
LoopHead_Short(f) ==
    IF f.i + 1 < f.max_hops
    THEN [f EXCEPT !.i = @ + 1, !.awaiting = TRUE, !.nreq = @ + 1]
    ELSE [f EXCEPT !.awaiting = FALSE,
                   !.result = Err("MaxRedirects", f.max_hops, f.location, f.url)]

\* head of `for _ in 0..max_hops`: either the next client.get is issued or
\* the loop is left and the redirect-limit error returned
LoopHead(f) ==
    IF f.i < f.max_hops
    THEN [f EXCEPT !.i = @ + 1, !.awaiting = TRUE, !.nreq = @ + 1]
    ELSE [f EXCEPT !.awaiting = FALSE,
                   !.result = Err("MaxRedirects", f.max_hops, f.location, f.url)]

\* the call: location = url, then the loop
get_redirect_until(url, max_hops) ==
    LoopHead([url |-> url, location |-> url, max_hops |-> max_hops,
              i |-> 0, nreq |-> 0, awaiting |-> FALSE, result |-> NoResult])

Return(f, result) == [f EXCEPT !.awaiting = FALSE, !.result = result]

\* mutant: the parsed LOCATION is dropped and the same URI requested again
FollowRedirect_SameUri(f, resp) ==
    IF ~resp.location.present
    THEN Return(f, Err("LocationMissing", resp.status, f.location, f.url))
    ELSE IF ~resp.location.visible
    THEN Return(f, Err("LocationNotString", resp.status, f.location, f.url))
    ELSE IF ~ParseUri(resp.location.text).ok
    THEN Return(f, WorkerErr("InvalidUri"))
    ELSE LoopHead(f)

\* mutant: a redirect without a usable LOCATION is retried on the same URI
FollowRedirect_Lenient(f, resp) ==
    IF resp.location.present /\ resp.location.visible /\ ParseUri(resp.location.text).ok
    THEN LoopHead([f EXCEPT !.location = ParseUri(resp.location.text).uri])
    ELSE LoopHead(f)

\* the redirect arm: read LOCATION, to_str, parse, continue
FollowRedirect(f, resp) ==
    IF ~resp.location.present
    THEN Return(f, Err("LocationMissing", resp.status, f.location, f.url))
    ELSE IF ~resp.location.visible
    THEN Return(f, Err("LocationNotString", resp.status, f.location, f.url))
    ELSE IF ~ParseUri(resp.location.text).ok
    THEN Return(f, WorkerErr("InvalidUri"))
    ELSE LoopHead([f EXCEPT !.location = ParseUri(resp.location.text).uri])

\* mutant: a failed request is retried while hops remain
OnAnswer_Retry(f, resp) ==
    IF resp.transport
    THEN LoopHead(f)
    ELSE IF resp.status = 200
    THEN Return(f, Ok(resp))
    ELSE IF IsRedirectStatus(resp.status)
    THEN FollowRedirect(f, resp)
    ELSE Return(f, Err("UnhandledStatus", resp.status, f.location, f.url))

\* the loop body after client.get(location).await has produced `resp`
OnAnswer(f, resp) ==
    IF resp.transport
    THEN Return(f, WorkerErr("Transport"))
    ELSE IF resp.status = 200
    THEN Return(f, Ok(resp))
    ELSE IF IsRedirectStatus(resp.status)
    THEN FollowRedirect(f, resp)
    ELSE Return(f, Err("UnhandledStatus", resp.status, f.location, f.url))

IdleFetch ==
    [url |-> "", location |-> "", max_hops |-> 0, i |-> 0, nreq |-> 0,
     awaiting |-> FALSE, result |-> NoResult]

\* ------------------------------------------------------------ AppConfig
None == [some |-> FALSE]
Some(v) == [some |-> TRUE, val |-> v]

\* characters of the titles, patterns and file names of the model
Str_dog1 == <<"d", "o", "g", " ", "1">>
Str_dogcat == <<"d", "o", "g", " ", "c", "a", "t">>
Str_cow == <<"c", "o", "w", "-", "2">>
Str_episode == <<"E", "p", " ", "4">>

\* a compiled Regex: a sequence of atoms, a literal character or ".*",
\* searched anywhere in the text unless anchored by a leading "^"
Regex_dog == [anchored |-> TRUE, atoms |-> <<"d", "o", "g">>]
Regex_c_t == [anchored |-> FALSE, atoms |-> <<"c", ".*", "t">>]
Regex_o == [anchored |-> FALSE, atoms |-> <<"o">>]

RECURSIVE MatchHere(_, _)
MatchHere(atoms, text) ==
    IF atoms = <<>> THEN TRUE
    ELSE IF Head(atoms) = ".*"
    THEN \E k \in 0..Len(text) : MatchHere(Tail(atoms), SubSeq(text, k + 1, Len(text)))
    ELSE /\ text # <<>>
         /\ Head(text) = Head(atoms)
         /\ MatchHere(Tail(atoms), Tail(text))

\* Regex::is_match
is_match(regex, text) ==
    IF regex.anchored THEN MatchHere(regex.atoms, text)
    ELSE \E k \in 0..Len(text) : MatchHere(regex.atoms, SubSeq(text, k + 1, Len(text)))

\* mutant: the two tests joined the wrong way
is_pattern_valid_Or(config, pattern) ==
    LET include == IF config.option_include_regex.some
                   THEN is_match(config.option_include_regex.val, pattern)
                   ELSE TRUE
        exclude == IF config.option_exclude_regex.some
                   THEN is_match(config.option_exclude_regex.val, pattern)
                   ELSE FALSE
    IN  include \/ ~exclude

\* AppConfig::is_pattern_valid
is_pattern_valid(config, pattern) ==
    LET include == IF config.option_include_regex.some
                   THEN is_match(config.option_include_regex.val, pattern)
                   ELSE TRUE
        exclude == IF config.option_exclude_regex.some
                   THEN is_match(config.option_exclude_regex.val, pattern)
                   ELSE FALSE
    IN  include /\ ~exclude

\* Regex::new(pattern): the patterns of the model and what they compile to
CompileRegex(pattern) ==
    CASE pattern = "^dog" -> [ok |-> TRUE,  regex |-> Regex_dog]
      [] pattern = "c.*t" -> [ok |-> TRUE,  regex |-> Regex_c_t]
      [] pattern = "o"    -> [ok |-> TRUE,  regex |-> Regex_o]
      [] OTHER            -> [ok |-> FALSE, regex |-> Regex_o]

\* AppConfig::new: Err when a pattern does not compile, a panic when
\* feed_url is no URI (parse().unwrap())
AppConfig_new(feed_url, output_path, include_pattern, exclude_pattern) ==
    IF include_pattern.some /\ ~CompileRegex(include_pattern.val).ok
    THEN WorkerErr("Regex")
    ELSE IF exclude_pattern.some /\ ~CompileRegex(exclude_pattern.val).ok
    THEN WorkerErr("Regex")
    ELSE IF ~ParseUri(feed_url).ok
    THEN [tag |-> "Panic"]
    ELSE [tag |-> "Ok",
          config |->
            [feed_uri |-> ParseUri(feed_url).uri,
             output_path |-> output_path,
             option_include_regex |->
                IF include_pattern.some
                THEN Some(CompileRegex(include_pattern.val).regex) ELSE None,
             option_exclude_regex |->
                IF exclude_pattern.some
                THEN Some(CompileRegex(exclude_pattern.val).regex) ELSE None]]

\* DEFAULT_DIRECTORY
DefaultDirectory == "episodes"

\* what clap hands over: value_of(name) per argument, the default of
\* "directory" filled in
ArgMatches(args) ==
    [feed_url |-> args.feed_url,
     directory |-> IF args.directory.some THEN args.directory.val ELSE DefaultDirectory,
     include_pattern |-> args.include_pattern,
     exclude_pattern |-> args.exclude_pattern]

\* AppConfig::from_cli_args after get_matches(): output_path is read from
\* the argument "feed_url"
from_cli_args(args) ==
    LET matches == ArgMatches(args)
        feed_url == matches.feed_url
        output_path == matches.feed_url
        built == AppConfig_new(feed_url, output_path,
                               matches.include_pattern, matches.exclude_pattern)
    IN  IF built.tag = "Err" THEN WorkerErr("AppConfig") ELSE built

\* the AppConfig values run is started with
Configs ==
    { AppConfig_new("http://a/feed", "out", None, None).config,
      AppConfig_new("http://a/feed", "out", Some("^dog"), Some("c.*t")).config }

\* ---------------------------------------------------------------- the feed
\* largest number of items of a feed
MaxItems == 2

Titles == <<Str_dog1, Str_dogcat, Str_cow, Str_episode>>
TitleAt(k) == Titles[((k - 1) % Len(Titles)) + 1]

\* rss::Item as read by download_enclosure: an optional title and an
\* optional enclosure with its url text
ItemsAt(k) ==
    { [title |-> None,             enclosure |-> Some("http://a/ep.mp3")],
      [title |-> Some(TitleAt(k)), enclosure |-> None],
      [title |-> Some(TitleAt(k)), enclosure |-> Some("http://[b")],
      [title |-> Some(TitleAt(k)), enclosure |-> Some("http://a/ep.mp3")] }
    \cup
    \* the second item may repeat the title of the first
    { [title |-> Some(TitleAt(1)), enclosure |-> Some("http://a/ep.mp3")] : j \in {2} \cap {k} }

\* the channels Channel::read_from can return
Channels ==
    UNION { { ch \in [1..n -> UNION { ItemsAt(k) : k \in 1..n }] :
                \A k \in 1..n : ch[k] \in ItemsAt(k) } : n \in 0..MaxItems }

\* --------------------------------------------------- file names and files
\* char::is_alphanumeric over the characters of the model; "U+00E9" is
\* the letter e with acute accent, alphanumeric and not ASCII
Alphanumeric ==
    {"a", "c", "d", "e", "g", "i", "o", "p", "s", "t", "w", "E", "1", "2", "4", "U+00E9"}

\* mutant: the other characters are dropped, not replaced
filename_from_title_Drop(title) ==
    SelectSeq(title, LAMBDA c : c \in Alphanumeric) \o <<".", "m", "p", "3">>

\* filename_from_title
filename_from_title(title) ==
    [k \in 1..Len(title) |->
        IF title[k] \in Alphanumeric THEN title[k] ELSE "_"] \o <<".", "m", "p", "3">>

\* mutant: every file gets the same path
PathOf_Flat(directory, filename) == <<directory, "/">>

\* format!("{}/{}", directory, filename): the directory text, the
\* separator, the characters of the file name
PathOf(directory, filename) == <<directory, "/">> \o filename

\* ------------------------------------------------------------ the workers
\* the answers the servers of a run give
RunAnswers(uri) ==
    { a \in Answers(uri) :
        \/ a.transport
        \/ a.status = 200 /\ a.location = NoHeader
        \/ a.status = 404 /\ a.location = NoHeader /\ a.body = <<>>
        \/ /\ a.status = 301
           /\ a.body = <<>>
           /\ a.location \in {NoHeader,
                              [present |-> TRUE, visible |-> TRUE, text |-> "http://b"]} }

WorkerOk == [tag |-> "Ok"]

\* a task between spawn and its first poll; fetch is the frame of its
\* get_redirect_until call while that call is pending
\* inflight is the chunk tokio's File has handed to its blocking write
\* and werr the error of such a write that no call has returned yet;
\* payload (the body of the 200 response) and written (the chunks of this
\* task that reached the file) are history
Spawned(item) ==
    [pc |-> "spawned", item |-> item, filename |-> <<>>, url |-> "",
     fetch |-> IdleFetch, body |-> <<>>, opened |-> FALSE, fetched |-> FALSE,
     inflight |-> <<>>, werr |-> FALSE, payload |-> <<>>, written |-> <<>>,
     result |-> NoResult, joined |-> FALSE]

\* the task's future has completed with `result`: its frames are gone,
\* the File is dropped and with it an error nobody asked for; a write
\* already handed over goes on
Finish(w, result) ==
    [w EXCEPT !.pc = "done", !.result = result, !.fetch = IdleFetch,
              !.body = <<>>, !.werr = FALSE]

\* mutant: an item without title or enclosure is passed over as a success
download_enclosure_SkipMalformed(w, config) ==
    IF ~(w.item.title.some /\ w.item.enclosure.some)
    THEN Finish(w, WorkerOk)
    ELSE IF ~is_pattern_valid(config, w.item.title.val)
    THEN Finish(w, WorkerOk)
    ELSE IF ~ParseUri(w.item.enclosure.val).ok
    THEN Finish(w, WorkerErr("InvalidUri"))
    ELSE [w EXCEPT !.pc = "mkdir",
                   !.url = ParseUri(w.item.enclosure.val).uri,
                   !.filename = filename_from_title(w.item.title.val)]

\* mutant: the title filter is not consulted
download_enclosure_NoFilter(w, config) ==
    IF ~(w.item.title.some /\ w.item.enclosure.some)
    THEN Finish(w, WorkerErr("MalformedItem"))
    ELSE IF ~ParseUri(w.item.enclosure.val).ok
    THEN Finish(w, WorkerErr("InvalidUri"))
    ELSE [w EXCEPT !.pc = "mkdir",
                   !.url = ParseUri(w.item.enclosure.val).uri,
                   !.filename = filename_from_title(w.item.title.val)]

\* download_enclosure up to the first await of create_file_in_dir
download_enclosure(w, config) ==
    IF ~(w.item.title.some /\ w.item.enclosure.some)
    THEN Finish(w, WorkerErr("MalformedItem"))
    ELSE IF ~is_pattern_valid(config, w.item.title.val)
    THEN Finish(w, WorkerOk)
    ELSE IF ~ParseUri(w.item.enclosure.val).ok
    THEN Finish(w, WorkerErr("InvalidUri"))
    ELSE [w EXCEPT !.pc = "mkdir",
                   !.url = ParseUri(w.item.enclosure.val).uri,
                   !.filename = filename_from_title(w.item.title.val)]

\* mutant: a fetch that failed is started again
AfterFetch_Retry(w, result) ==
    IF result.tag = "Ok"
    THEN [w EXCEPT !.pc = "stream", !.fetch = IdleFetch, !.fetched = TRUE,
                   !.body = result.resp.body, !.payload = result.resp.body]
    ELSE [w EXCEPT !.pc = "fetch", !.fetch = get_redirect_until(w.url, HopBudget)]

\* download_audio_file when get_redirect_until has returned `result`
AfterFetch(w, result) ==
    IF result.tag = "Ok"
    THEN [w EXCEPT !.pc = "stream", !.fetch = IdleFetch, !.fetched = TRUE,
                   !.body = result.resp.body, !.payload = result.resp.body]
    ELSE Finish(w, result)

\* download_audio_file once the file is open: the fetch is started
StartFetch(w) ==
    LET f == get_redirect_until(w.url, HopBudget)
    IN  IF f.awaiting THEN [w EXCEPT !.pc = "fetch", !.fetch = f]
        ELSE AfterFetch(w, f.result)

\* download_audio_file when an answer to the pending GET arrives
FetchStep(w, resp) ==
    LET f == OnAnswer(w.fetch, resp)
    IN  IF f.awaiting THEN [w EXCEPT !.fetch = f]
        ELSE AfterFetch(w, f.result)

\* file.write_all(&chunk).await on a tokio File: it waits while the
\* blocking write before it runs; then the error of that write is
\* returned if there was one, else the chunk is copied to the buffer,
\* handed to a blocking write, and Ok returned at once
write_all(w) ==
    IF w.inflight # <<>>
    THEN [w EXCEPT !.pc = "write"]
    ELSE IF w.werr
    THEN Finish(w, WorkerErr("Write"))
    ELSE [w EXCEPT !.pc = "stream", !.inflight = <<Head(w.body)>>,
                   !.body = Tail(@)]

\* the loop of download_audio_file when resp.body_mut().data().await
\* returns: None ends it with Ok(()), Some(Err) with `chunk?`, and
\* Some(Ok(chunk)) goes to write_all
next_chunk(w) ==
    IF w.body = <<>> THEN Finish(w, WorkerOk)
    ELSE IF Head(w.body) = ReadError THEN Finish(w, WorkerErr("Body"))
    ELSE write_all(w)

\* a byte range no writer has filled
Hole == "hole"

\* write(2) through a handle whose offset is `off` chunks
WriteAt(content, off, chunk) ==
    IF off < Len(content)
    THEN [content EXCEPT ![off + 1] = chunk]
    ELSE content \o [k \in 1..(off - Len(content)) |-> Hole] \o <<chunk>>

\* ---------------------------------------------------------------- run
Returned(result) == [pc |-> "returned", result |-> result]

\* client.get(feed_uri).await failed
TransportOutcome == [ok |-> FALSE, kind |-> "Transport", channel |-> <<>>]

\* what get_rss_channel's body read and Channel::read_from can come to
FeedOutcomes ==
    { [ok |-> FALSE, kind |-> "Body", channel |-> <<>>],
      [ok |-> FALSE, kind |-> "Parse", channel |-> <<>>] }
    \cup { [ok |-> TRUE, kind |-> "", channel |-> ch] : ch \in Channels }

Finished(w) == w.pc \in {"done", "panicked"}

\* mutant: the handles are awaited one after the other, in feed order
CanYield_InOrder(ts, i) ==
    /\ Finished(ts[i])
    /\ ~ts[i].joined
    /\ \A k \in 1..(i - 1) : ts[k].joined

\* FuturesUnordered yields the handle of any task that has finished and
\* has not been yielded yet
CanYield(ts, i) == Finished(ts[i]) /\ ~ts[i].joined

\* `while let Some(handle) = downloads.next().await`: the stream is
\* exhausted when every handle has been yielded, and run returns Ok(())
AwaitNext(ts) ==
    IF \A k \in 1..Len(ts) : ts[k].joined
    THEN Returned(WorkerOk)
    ELSE [pc |-> "collecting", result |-> NoResult]

\* mutant: a feed that cannot be read is taken for an empty channel
run_after_feed_Lenient(outcome) ==
    LET ts == [k \in 1..Len(outcome.channel) |-> Spawned(outcome.channel[k])]
    IN  [run |-> AwaitNext(ts), tasks |-> ts]

\* run after get_rss_channel(..).await: `?`, or one spawn per item
run_after_feed(outcome) ==
    IF ~outcome.ok
    THEN [run |-> Returned(WorkerErr(outcome.kind)), tasks |-> <<>>]
    ELSE LET ts == [k \in 1..Len(outcome.channel) |-> Spawned(outcome.channel[k])]
         IN  [run |-> AwaitNext(ts), tasks |-> ts]

\* mutant: the loop is left at the first failed outcome
Join_Break(st, i) ==
    LET w  == st.tasks[i]
        ts == [st.tasks EXCEPT ![i].joined = TRUE]
    IN  IF w.pc = "panicked"
        THEN [st EXCEPT !.run = Returned(WorkerErr("JoinError")), !.tasks = ts]
        ELSE IF w.result.tag = "Err"
        THEN [run |-> Returned(WorkerOk),
              tasks |-> ts,
              errorLog |-> [st.errorLog EXCEPT ![i] = Append(@, w.result)]]
        ELSE [st EXCEPT !.run = AwaitNext(ts), !.tasks = ts]

\* mutant: the outcome of the task is propagated with `?` as well
Join_Propagate(st, i) ==
    LET w  == st.tasks[i]
        ts == [st.tasks EXCEPT ![i].joined = TRUE]
    IN  IF w.pc = "panicked"
        THEN [st EXCEPT !.run = Returned(WorkerErr("JoinError")), !.tasks = ts]
        ELSE IF w.result.tag = "Err"
        THEN [st EXCEPT !.run = Returned(w.result), !.tasks = ts]
        ELSE [st EXCEPT !.run = AwaitNext(ts), !.tasks = ts]

\* mutant: a JoinError is logged like an item failure and the loop goes on
Join_LogFault(st, i) ==
    LET w  == st.tasks[i]
        ts == [st.tasks EXCEPT ![i].joined = TRUE]
    IN  [run |-> AwaitNext(ts),
         tasks |-> ts,
         errorLog |-> IF w.pc = "panicked"
                      THEN [st.errorLog EXCEPT ![i] = Append(@, WorkerErr("JoinError"))]
                      ELSE IF w.result.tag = "Err"
                      THEN [st.errorLog EXCEPT ![i] = Append(@, w.result)]
                      ELSE st.errorLog]

\* the loop body of run for the handle of task i: `handle?` returns on a
\* JoinError, an Err outcome is logged with error!
Join(st, i) ==
    LET w  == st.tasks[i]
        ts == [st.tasks EXCEPT ![i].joined = TRUE]
    IN  IF w.pc = "panicked"
        THEN [st EXCEPT !.run = Returned(WorkerErr("JoinError")), !.tasks = ts]
        ELSE [run |-> AwaitNext(ts),
              tasks |-> ts,
              errorLog |-> IF w.result.tag = "Err"
                           THEN [st.errorLog EXCEPT ![i] = Append(@, w.result)]
                           ELSE st.errorLog]

\* ------------------------------------------------------------------ state
VARIABLES
    fetch,      \* SpecFetch: the frame of the get_redirect_until call
    reqlog,     \* SpecFetch: the URIs passed to client.get, in order
    locs,       \* SpecFetch: the LOCATION headers of the redirects received
    hist,       \* SpecFetch: the kind of every answer received, in order
    lastResp,   \* SpecFetch: the most recent answer
    config,     \* Spec: the AppConfig handed to run
    run,        \* Spec: where run is and what it returned
    tasks,      \* Spec: the spawned tasks, in feed order
    files,      \* Spec: the files under the output directory, path -> chunks
    dirs,       \* Spec: the directories created
    errorLog,   \* Spec: per task, the errors run has logged with error!
    feed,       \* Spec: how the acquisition of the feed ended
    call        \* SpecPure: one call of a pure function and what it returned

fvars == <<fetch, reqlog, locs, hist, lastResp>>
rvars == <<config, run, tasks, files, dirs, errorLog, feed>>
vars == <<fetch, reqlog, locs, hist, lastResp, config, run, tasks, files, dirs, errorLog, feed, call>>

IdleRun == [pc |-> "idle", result |-> NoResult]
IdleCall == [op |-> "none"]
IdleConfig == CHOOSE c \in Configs : ~c.option_include_regex.some

\* what the server answered, in the terms of the HTTP exchange
AnswerKind(resp) ==
    IF resp.transport THEN "transport"
    ELSE IF resp.status = 200 THEN "ok200"
    ELSE IF resp.status \notin 300..310 THEN "other"
    ELSE IF ~resp.location.present THEN "redirect_missing"
    ELSE IF ~resp.location.visible \/ ~ParseUri(resp.location.text).ok
    THEN "redirect_invalid"
    ELSE "redirect"

Issued(f) == IF f.awaiting THEN <<f.location>> ELSE <<>>

InitFetch ==
    /\ \E url \in Uris, max_hops \in 0..MaxHops :
          fetch = get_redirect_until(url, max_hops)
    /\ reqlog = Issued(fetch)
    /\ locs = <<>>
    /\ hist = <<>>
    /\ lastResp = TransportFailure
    /\ config = IdleConfig
    /\ run = IdleRun
    /\ tasks = <<>>
    /\ files = <<>>
    /\ dirs = {}
    /\ errorLog = <<>>
    /\ feed = "pending"
    /\ call = IdleCall

\* client.get(location).await completes and the loop body runs up to the
\* next await or the return
FetchAnswer ==
    /\ fetch.awaiting
    /\ \E resp \in Answers(fetch.location) :
          /\ fetch' = OnAnswer(fetch, resp)
          /\ lastResp' = resp
          /\ hist' = Append(hist, AnswerKind(resp))
          /\ locs' = IF ~resp.transport /\ resp.status \in 300..310
                        /\ resp.location.present
                     THEN Append(locs, resp.location)
                     ELSE locs
          /\ reqlog' = reqlog \o Issued(fetch')
    /\ UNCHANGED <<rvars, call>>

NextFetch == FetchAnswer

SpecFetch == InitFetch /\ [][NextFetch]_vars

\* ------------------------------------------------------------------- Spec
\* run has been called: the feed request is in flight
Init ==
    /\ config \in Configs
    /\ run = [pc |-> "get_feed", result |-> NoResult]
    /\ tasks = <<>>
    /\ files = <<>>
    /\ dirs = {}
    /\ errorLog = <<>>
    /\ feed = "pending"
    /\ call = IdleCall
    /\ fetch = IdleFetch
    /\ reqlog = <<>>
    /\ locs = <<>>
    /\ hist = <<>>
    /\ lastResp = TransportFailure

\* get_rss_channel: client.get(config.get_feed_uri()).await
GetFeed ==
    /\ run.pc = "get_feed"
    /\ \E ok \in BOOLEAN :
          IF ok
          THEN /\ run' = [run EXCEPT !.pc = "read_feed"]
               /\ feed' = feed
          ELSE /\ run' = run_after_feed(TransportOutcome).run
               /\ feed' = "Transport"
    /\ UNCHANGED <<config, tasks, files, dirs, errorLog, fvars, call>>

\* get_rss_channel: body::to_bytes(..).await, Channel::read_from, and run
\* up to its first downloads.next().await
ReadFeed ==
    /\ run.pc = "read_feed"
    /\ \E outcome \in FeedOutcomes :
          LET next == run_after_feed(outcome)
          IN  /\ run' = next.run
              /\ tasks' = next.tasks
              /\ errorLog' = [k \in 1..Len(next.tasks) |-> <<>>]
              /\ feed' = IF outcome.ok THEN "Ok" ELSE outcome.kind
    /\ UNCHANGED <<config, files, dirs, fvars, call>>

Running(i) == i \in 1..Len(tasks) /\ ~Finished(tasks[i])

\* first poll of task i
WorkerStart(i) ==
    /\ i \in 1..Len(tasks)
    /\ tasks[i].pc = "spawned"
    /\ tasks' = [tasks EXCEPT ![i] = download_enclosure(@, config)]
    /\ UNCHANGED <<config, run, files, dirs, errorLog, feed, fvars, call>>

\* create_file_in_dir: DirBuilder::create(directory).await
MakeDir(i) ==
    /\ i \in 1..Len(tasks)
    /\ tasks[i].pc = "mkdir"
    /\ \E ok \in BOOLEAN :
          IF ok
          THEN /\ dirs' = dirs \cup {config.output_path}
               /\ tasks' = [tasks EXCEPT ![i].pc = "open"]
          ELSE /\ dirs' = dirs
               /\ tasks' = [tasks EXCEPT ![i] = Finish(@, WorkerErr("DirCreate"))]
    /\ UNCHANGED <<config, run, files, errorLog, feed, fvars, call>>

\* create_file_in_dir: OpenOptions .. create(true).truncate(true).open().await,
\* then download_audio_file up to the first await of get_redirect_until
OpenFile(i) ==
    /\ i \in 1..Len(tasks)
    /\ tasks[i].pc = "open"
    /\ \E ok \in BOOLEAN :
          IF ok
          THEN LET path == PathOf(config.output_path, tasks[i].filename)
               IN  /\ files' = [p \in DOMAIN files \cup {path} |->
                                   IF p = path THEN <<>> ELSE files[p]]
                   /\ tasks' = [tasks EXCEPT ![i] = StartFetch([@ EXCEPT !.opened = TRUE])]
          ELSE /\ files' = files
               /\ tasks' = [tasks EXCEPT ![i] = Finish(@, WorkerErr("FileOpen"))]
    /\ UNCHANGED <<config, run, dirs, errorLog, feed, fvars, call>>

\* get_redirect_until in task i: client.get(location).await completes
WorkerFetch(i) ==
    /\ i \in 1..Len(tasks)
    /\ tasks[i].pc = "fetch"
    /\ \E resp \in RunAnswers(tasks[i].fetch.location) :
          tasks' = [tasks EXCEPT ![i] = FetchStep(@, resp)]
    /\ UNCHANGED <<config, run, files, dirs, errorLog, feed, fvars, call>>

\* download_audio_file: resp.body_mut().data().await
ReadChunk(i) ==
    /\ i \in 1..Len(tasks)
    /\ tasks[i].pc = "stream"
    /\ tasks' = [tasks EXCEPT ![i] = next_chunk(@)]
    /\ UNCHANGED <<config, run, files, dirs, errorLog, feed, fvars, call>>

\* download_audio_file: file.write_all(&chunk).await returns; it waits
\* for the blocking write before it
WriteChunk(i) ==
    /\ i \in 1..Len(tasks)
    /\ tasks[i].pc = "write"
    /\ tasks[i].inflight = <<>>
    /\ tasks' = [tasks EXCEPT ![i] = write_all(@)]
    /\ UNCHANGED <<config, run, files, dirs, errorLog, feed, fvars, call>>

\* the blocking write of task i's File ends, whether or not the task
\* still runs: the chunk is in the file, or the write failed and the
\* error waits for the next call on the File
BlockingWrite(i) ==
    /\ i \in 1..Len(tasks)
    /\ tasks[i].inflight # <<>>
    /\ \E ok \in BOOLEAN :
          IF ok
          THEN LET path == PathOf(config.output_path, tasks[i].filename)
                   chunk == Head(tasks[i].inflight)
               IN  /\ files' = [files EXCEPT ![path] =
                                   WriteAt(@, Len(tasks[i].written), chunk)]
                   /\ tasks' = [tasks EXCEPT ![i].inflight = <<>>,
                                            ![i].written = Append(@, chunk)]
          ELSE /\ files' = files
               /\ tasks' = [tasks EXCEPT ![i].inflight = <<>>,
                                        ![i].werr = ~Finished(tasks[i])]
    /\ UNCHANGED <<config, run, dirs, errorLog, feed, fvars, call>>

\* the peer of task i stops answering: client.get(..).await or
\* resp.body_mut().data().await never returns (no timeout is set), and
\* the task is never polled again
Hang(i) ==
    /\ i \in 1..Len(tasks)
    /\ tasks[i].pc \in {"fetch", "stream"}
    /\ tasks' = [tasks EXCEPT ![i].pc = "hung", ![i].fetch = IdleFetch,
                             ![i].body = <<>>]
    /\ UNCHANGED <<config, run, files, dirs, errorLog, feed, fvars, call>>

\* task i panics or is aborted: its JoinHandle will yield a JoinError
Panic(i) ==
    /\ Running(i)
    /\ tasks[i].pc # "hung"
    /\ tasks' = [tasks EXCEPT ![i].pc = "panicked", ![i].fetch = IdleFetch,
                             ![i].body = <<>>, ![i].werr = FALSE,
                             ![i].payload = <<>>]
    /\ UNCHANGED <<config, run, files, dirs, errorLog, feed, fvars, call>>

\* downloads.next().await yields the handle of a finished task
Collect(i) ==
    /\ run.pc = "collecting"
    /\ i \in 1..Len(tasks)
    /\ CanYield(tasks, i)
    /\ LET next == Join([run |-> run, tasks |-> tasks, errorLog |-> errorLog], i)
       IN  /\ run' = next.run
           /\ tasks' = next.tasks
           /\ errorLog' = next.errorLog
    /\ UNCHANGED <<config, files, dirs, feed, fvars, call>>

Next ==
    \/ GetFeed
    \/ ReadFeed
    \/ \E i \in 1..MaxItems :
          \/ WorkerStart(i)
          \/ MakeDir(i)
          \/ OpenFile(i)
          \/ WorkerFetch(i)
          \/ ReadChunk(i)
          \/ WriteChunk(i)
          \/ BlockingWrite(i)
          \/ Hang(i)
          \/ Panic(i)
          \/ Collect(i)

Spec == Init /\ [][Next]_vars

\* what the executor and the blocking pool do for task i
TaskStep(i) ==
    \/ WorkerStart(i)
    \/ MakeDir(i)
    \/ OpenFile(i)
    \/ WorkerFetch(i)
    \/ ReadChunk(i)
    \/ WriteChunk(i)
    \/ BlockingWrite(i)

\* run at downloads.next().await takes some handle that is ready
CollectAny == \E i \in 1..MaxItems : Collect(i)

\* the run under a fair executor: the work of a task that can go on does
\* go on, and run, itself a polled task, takes a handle when
\* FuturesUnordered has one ready. A peer may still stop answering (Hang)
\* and a task may still be aborted (Panic)
SpecLive ==
    /\ Init /\ [][Next]_vars
    /\ \A i \in 1..MaxItems : WF_vars(TaskStep(i))
    /\ WF_vars(CollectAny)

\* ============================================================== properties
Last(seq) == seq[Len(seq)]
TaskIds == 1..Len(tasks)
JoinFault == \E k \in TaskIds : tasks[k].pc = "panicked" /\ tasks[k].joined
FeedFailures == {"Transport", "Body", "Parse"}
FetchErrors ==
    {"Transport", "UnhandledStatus", "LocationMissing", "LocationNotString",
     "InvalidUri", "MaxRedirects"}
AllRedirects == \A k \in 1..Len(hist) : hist[k] = "redirect"
LimitError == Err("MaxRedirects", fetch.max_hops, fetch.location, fetch.url)

\* C1 (as stated): a task has created or truncated its destination file
\* only if its redirect-following fetch has already returned a 200 response.
C1_FileOnlyAfterFetchSuccess ==
    \A i \in TaskIds : tasks[i].opened => tasks[i].fetched

\* C2: fault isolation in run. When no join fault is reported, run returns
\* only after every spawned task has completed and been collected; the
\* outcome of every collected failed task is in the error log exactly once
\* and nothing else is; collecting a failure leaves run collecting.
C2_FaultIsolation ==
    /\ DOMAIN errorLog = TaskIds
    /\ \A i \in TaskIds :
          /\ Len(errorLog[i]) <= 1
          /\ Len(errorLog[i]) = 1 <=>
                (tasks[i].joined /\ tasks[i].pc = "done" /\ tasks[i].result.tag = "Err")
          /\ Len(errorLog[i]) = 1 => errorLog[i][1] = tasks[i].result
    /\ (feed = "Ok" /\ ~JoinFault) =>
          /\ run.pc = "returned" <=> \A i \in TaskIds : tasks[i].joined
          /\ run.pc # "returned" => run.pc = "collecting"
          /\ \A i \in TaskIds : tasks[i].joined => tasks[i].pc = "done"

C2_Witness ==
    /\ run = Returned(WorkerOk)
    /\ \E i, j \in TaskIds :
          /\ i < j
          /\ tasks[i].result.tag = "Err" /\ tasks[i].result.kind = "UnhandledStatus"
          /\ errorLog[i] = <<tasks[i].result>>
          /\ tasks[j].result = WorkerOk /\ tasks[j].fetched
          /\ files[PathOf(config.output_path, tasks[j].filename)] = <<"c1", "c2">>

\* C3: once the feed is obtained and parsed, run returns Ok whatever the
\* outcomes of the items; run returns an error only for a feed failure or
\* a join fault, never for the failure of an item.
C3_RunOkDespiteItemFailures ==
    run.pc = "returned" =>
        /\ (feed = "Ok" /\ ~JoinFault) => run.result = WorkerOk
        /\ run.result.tag = "Err" =>
              \/ feed \in FeedFailures /\ run.result.kind = feed
              \/ JoinFault /\ run.result.kind = "JoinError"

C3_Witness ==
    /\ run = Returned(WorkerOk)
    /\ \E i, j \in TaskIds :
          /\ tasks[i].result = WorkerErr("MalformedItem")
          /\ tasks[j].result.tag = "Err"
          /\ tasks[j].result.kind \in FetchErrors \cup {"DirCreate", "FileOpen", "Body", "Write"}
          /\ tasks[j].result.kind # "InvalidUri"

\* C4: when acquiring the feed fails (the request, reading the body or
\* parsing it), run has returned an error, no task was spawned, and no
\* directory or file was created.
C4_FeedFailureSpawnsNothing ==
    feed \in FeedFailures =>
        /\ run = Returned(WorkerErr(feed))
        /\ tasks = <<>>
        /\ files = <<>>
        /\ dirs = {}

C4_Witness == feed = "Parse" /\ run.pc = "returned"

\* C5: against a server answering every request with a redirect that has a
\* usable Location, the fetch ends with the redirect-limit error after
\* exactly max_hops requests (none when max_hops = 0), and never issues more.
C5_RedirectLimitExact ==
    AllRedirects =>
        /\ fetch.nreq <= fetch.max_hops
        /\ Len(reqlog) = fetch.nreq
        /\ ~fetch.awaiting =>
              /\ fetch.result = LimitError
              /\ fetch.nreq = fetch.max_hops
              /\ Len(hist) = fetch.max_hops

C5_Witness ==
    /\ AllRedirects
    /\ ~fetch.awaiting
    /\ fetch.max_hops >= 2
    /\ Len(hist) = fetch.max_hops
    /\ fetch.result.kind = "MaxRedirects"

\* C6 (as stated): for every k with 0 <= k <= max_hops, after k redirects
\* the fetch is still requesting, so that the 200 which follows is returned.
C6_BudgetCountsRedirects ==
    /\ (AllRedirects /\ Len(hist) <= fetch.max_hops) => fetch.awaiting
    /\ (hist # <<>> /\ Last(hist) = "ok200") => fetch.result = Ok(lastResp)

\* C6 (amended): for every k with 0 <= k < max_hops, after k redirects the
\* fetch is still requesting and the 200 which follows is returned as the
\* success; after max_hops redirects the fetch has given up with the
\* redirect-limit error and the last Location is never requested.
C6_BudgetCountsRequests ==
    /\ (AllRedirects /\ Len(hist) < fetch.max_hops) => fetch.awaiting
    /\ (hist # <<>> /\ Last(hist) = "ok200") =>
          /\ ~fetch.awaiting
          /\ fetch.result = Ok(lastResp)
          /\ Len(hist) <= fetch.max_hops
    /\ (AllRedirects /\ Len(hist) = fetch.max_hops) =>
          /\ fetch.result = LimitError
          /\ Len(reqlog) = fetch.max_hops

C6_Witness ==
    /\ fetch.max_hops >= 2
    /\ Len(hist) = fetch.max_hops
    /\ Last(hist) = "ok200"
    /\ \A k \in 1..(Len(hist) - 1) : hist[k] = "redirect"
    /\ fetch.result.tag = "Ok"

\* C7: the first request goes to the given URL, every later request to the
\* parsed Location of the redirect answered just before it; on success the
\* last request went to the last Location received.
C7_RequestsFollowLocation ==
    /\ reqlog # <<>> => reqlog[1] = fetch.url
    /\ \A k \in 2..Len(reqlog) :
          /\ k - 1 <= Len(locs)
          /\ locs[k - 1].visible
          /\ ParseUri(locs[k - 1].text).ok
          /\ reqlog[k] = ParseUri(locs[k - 1].text).uri
    /\ (fetch.result.tag = "Ok" /\ locs # <<>>) =>
          /\ Len(reqlog) = Len(locs) + 1
          /\ Last(reqlog) = ParseUri(Last(locs).text).uri

C7_Witness ==
    /\ fetch.result.tag = "Ok"
    /\ hist = <<"redirect", "redirect", "ok200">>
    /\ fetch.url = "http://a/ep.mp3"
    /\ Last(locs).text = "http://b"
    /\ reqlog = <<"http://a/ep.mp3", "http://a/ep.mp3", "http://b/">>

\* C8: an answer whose status is neither 200 nor in 300..310 ends the fetch
\* with the error naming that status and the URL just requested, and no
\* request follows it (one request in all when it is the first answer).
C8_UnhandledStatusIsTerminal ==
    (hist # <<>> /\ Last(hist) = "other") =>
        /\ ~fetch.awaiting
        /\ fetch.result =
              Err("UnhandledStatus", lastResp.status, Last(reqlog), fetch.url)
        /\ Len(reqlog) = Len(hist)
        /\ fetch.nreq = Len(hist)

C8_Witness ==
    /\ hist = <<"other">>
    /\ lastResp.status = 404
    /\ fetch.max_hops >= 2
    /\ fetch.nreq = 1
    /\ fetch.result.kind = "UnhandledStatus"

\* C9: a redirect without a Location header ends the fetch with the
\* missing-target error, one whose Location is no string or no URL ends it
\* with an invalid-target error; no request follows either.
C9_BadRedirectIsTerminal ==
    /\ (hist # <<>> /\ Last(hist) = "redirect_missing") =>
          /\ ~fetch.awaiting
          /\ fetch.result =
                Err("LocationMissing", lastResp.status, Last(reqlog), fetch.url)
          /\ Len(reqlog) = Len(hist)
    /\ (hist # <<>> /\ Last(hist) = "redirect_invalid") =>
          /\ ~fetch.awaiting
          /\ fetch.result =
                IF lastResp.location.visible
                THEN WorkerErr("InvalidUri")
                ELSE Err("LocationNotString", lastResp.status, Last(reqlog), fetch.url)
          /\ Len(reqlog) = Len(hist)

C9_Witness ==
    /\ Len(hist) = 2
    /\ Last(hist) = "redirect_invalid"
    /\ lastResp.location.visible
    /\ fetch.max_hops > 2
    /\ fetch.result.kind = "InvalidUri"

\* C10: a transport failure of the request at any hop ends the fetch with
\* that error at once: no request follows and the hops left stay unused.
C10_TransportFailureIsTerminal ==
    (hist # <<>> /\ Last(hist) = "transport") =>
        /\ ~fetch.awaiting
        /\ fetch.result = WorkerErr("Transport")
        /\ Len(reqlog) = Len(hist)
        /\ fetch.nreq = Len(hist)

C10_Witness ==
    /\ Len(hist) = 2
    /\ Last(hist) = "transport"
    /\ Last(reqlog) \in AbsoluteUris
    /\ fetch.nreq < fetch.max_hops
    /\ fetch.result.kind = "Transport"


-----------------------------------------------------------------------------
\* The pure functions, each applied once to an input of a bounded set

MaxTitleLen == 3

SeqsUpTo(S, n) == UNION { [1..k -> S] : k \in 0..n }

\* the titles of tests::test_appconfig_regex
Str_dog_episode == <<"d", "o", "g", " ", "e", "p", "i", "s", "o", "d", "e">>
Str_episode_only == <<"e", "p", "i", "s", "o", "d", "e">>
Str_dog_casdat == <<"d", "o", "g", " ", "c", "a", "s", "d", "a", "t">>
TestTitles == {Str_dog_episode, Str_episode_only, Str_dog_casdat}

\* titles handed to is_pattern_valid
FilterChars == {"d", "o", "g", "c", "t"}
FilterTitles ==
    SeqsUpTo(FilterChars, MaxTitleLen) \cup TestTitles
        \cup { Titles[k] : k \in 1..Len(Titles) }

\* --include / --exclude as given on the command line; "(" does not compile
Patterns == {"^dog", "c.*t", "o"}
OptPatterns == {None} \cup { Some(p) : p \in Patterns }
CliPatterns == {None, Some("^dog"), Some("c.*t"), Some("(")}

\* titles handed to filename_from_title: letters, a digit, a letter
\* outside ASCII, and characters that are not alphanumeric
FileChars == {"a", "E", "1", "U+00E9", " ", "_", ".", "/"}
FilenameTitles == SeqsUpTo(FileChars, MaxTitleLen)

\* the command lines clap accepts (--feed is required)
CliArgs ==
    [feed_url : {"http://a/feed", "http://[b"},
     directory : {None, Some("out"), Some("pods")},
     include_pattern : CliPatterns,
     exclude_pattern : CliPatterns]

InitPure ==
    /\ fetch = IdleFetch
    /\ reqlog = <<>>
    /\ locs = <<>>
    /\ hist = <<>>
    /\ lastResp = NoResult
    /\ config = IdleConfig
    /\ run = IdleRun
    /\ tasks = <<>>
    /\ files = << >>
    /\ dirs = {}
    /\ errorLog = <<>>
    /\ feed = "pending"
    /\ call = IdleCall

\* config.is_pattern_valid(title) on a config built by AppConfig::new
ApplyFilter ==
    /\ call = IdleCall
    /\ \E title \in FilterTitles, inc \in OptPatterns, exc \in OptPatterns :
         LET cfg == AppConfig_new("http://a/feed", "out", inc, exc).config
         IN  call' = [op |-> "is_pattern_valid", title |-> title,
                      config |-> cfg,
                      out |-> is_pattern_valid(cfg, title)]
    /\ UNCHANGED <<rvars, fvars>>

\* filename_from_title(title)
ApplyFilename ==
    /\ call = IdleCall
    /\ \E title \in FilenameTitles :
         call' = [op |-> "filename_from_title", title |-> title,
                  out |-> filename_from_title(title)]
    /\ UNCHANGED <<rvars, fvars>>

\* AppConfig::from_cli_args on one command line
ApplyFromCliArgs ==
    /\ call = IdleCall
    /\ \E args \in CliArgs :
         call' = [op |-> "from_cli_args", args |-> args,
                  out |-> from_cli_args(args)]
    /\ UNCHANGED <<rvars, fvars>>

NextPure ==
    \/ ApplyFilter
    \/ ApplyFilename
    \/ ApplyFromCliArgs

SpecPure == InitPure /\ [][NextPure]_vars

-----------------------------------------------------------------------------
\* C11: for every title and every combination of configured or absent
\* include and exclude patterns, is_pattern_valid returns
\* (no include configured or the title matches it) and not (exclude
\* configured and the title matches it); the three titles of
\* tests::test_appconfig_regex get the answers the test expects.
C11_FilterNetRule ==
    call.op = "is_pattern_valid" =>
        LET inc == call.config.option_include_regex
            exc == call.config.option_exclude_regex
            t == call.title
        IN  /\ call.out =
                ( /\ (~inc.some \/ is_match(inc.val, t))
                  /\ ~(exc.some /\ is_match(exc.val, t)) )
            /\ (~inc.some /\ ~exc.some) => call.out
            /\ (inc = Some(Regex_dog) /\ exc = Some(Regex_c_t)) =>
                  /\ t = Str_dog_episode => call.out
                  /\ t = Str_episode_only => ~call.out
                  /\ t = Str_dog_casdat => ~call.out

\* a title matching both patterns has been rejected
C11_Witness ==
    /\ call.op = "is_pattern_valid"
    /\ call.config.option_include_regex = Some(Regex_dog)
    /\ call.config.option_exclude_regex = Some(Regex_c_t)
    /\ call.title = Str_dog_casdat
    /\ ~call.out

\* C14: the configuration from_cli_args builds has as output directory the
\* value of --dir ("episodes" when omitted) and as feed URI the value of
\* --feed.
C14_OutputDirIsDirOption ==
    (call.op = "from_cli_args" /\ call.out.tag = "Ok") =>
        /\ call.out.config.output_path =
               (IF call.args.directory.some
                THEN call.args.directory.val ELSE "episodes")
        /\ call.out.config.feed_uri = ParseUri(call.args.feed_url).uri

\* C15: filename_from_title returns the title with each character that is
\* not alphanumeric replaced by one underscore, followed by ".mp3": the
\* stem is as long as the title and holds only alphanumeric characters
\* and underscores, and the empty title yields ".mp3".
C15_FilenameShape ==
    call.op = "filename_from_title" =>
        LET t == call.title
            out == call.out
            n == Len(t)
        IN  /\ Len(out) = n + 4
            /\ SubSeq(out, n + 1, n + 4) = <<".", "m", "p", "3">>
            /\ \A k \in 1..n :
                 /\ out[k] \in Alphanumeric \cup {"_"}
                 /\ t[k] \in Alphanumeric => out[k] = t[k]
                 /\ t[k] \notin Alphanumeric => out[k] = "_"
            /\ t = <<>> => out = <<".", "m", "p", "3">>

\* a title mixing a non-ASCII letter, a separator and a digit
C15_Witness ==
    /\ call.op = "filename_from_title"
    /\ call.title = <<"U+00E9", "/", "1">>
    /\ call.out = <<"U+00E9", "_", "1", ".", "m", "p", "3">>


-----------------------------------------------------------------------------
\* What a task has done so far, read off its record

Malformed(item) == ~(item.title.some /\ item.enclosure.some)
Rejected(cfg, item) ==
    ~Malformed(item) /\ ~is_pattern_valid(cfg, item.title.val)

\* the task has reached no await: no request, no directory, no file
NoIO(w) ==
    /\ w.pc \in {"spawned", "done", "panicked"}
    /\ ~w.opened
    /\ ~w.fetched
    /\ w.fetch = IdleFetch
    /\ w.filename = <<>>

\* C12: a worker given an item that lacks a title or lacks an enclosure
\* returns a failure and performs no HTTP request and no directory or
\* file creation; a channel of such items alone leaves no directory and
\* no file.
C12_MalformedItemFailsWithoutIO ==
    /\ \A i \in TaskIds :
          Malformed(tasks[i].item) =>
             /\ NoIO(tasks[i])
             /\ tasks[i].pc = "done" => tasks[i].result = WorkerErr("MalformedItem")
    /\ (\A i \in TaskIds : Malformed(tasks[i].item)) =>
          (dirs = {} /\ DOMAIN files = {})

\* an item without title and an item without enclosure have both failed
C12_Witness ==
    /\ Len(tasks) = 2
    /\ ~tasks[1].item.title.some
    /\ ~tasks[2].item.enclosure.some
    /\ \A i \in TaskIds :
          tasks[i].pc = "done" /\ tasks[i].result = WorkerErr("MalformedItem")
    /\ run = Returned(WorkerOk)
    /\ dirs = {}

\* C13: a worker given a well-formed item whose title the filter rejects
\* returns success without any I/O, so a directory or a file exists only
\* when some item of the channel passed the filter, and every file is
\* that of an item that passed.
C13_RejectedItemIsNoOp ==
    /\ \A i \in TaskIds :
          Rejected(config, tasks[i].item) =>
             /\ NoIO(tasks[i])
             /\ tasks[i].pc = "done" => tasks[i].result = WorkerOk
    /\ \A path \in DOMAIN files :
          \E i \in TaskIds :
             /\ ~Malformed(tasks[i].item)
             /\ ~Rejected(config, tasks[i].item)
             /\ path = PathOf(config.output_path,
                              filename_from_title(tasks[i].item.title.val))
    /\ dirs # {} =>
          \E i \in TaskIds :
             ~Malformed(tasks[i].item) /\ ~Rejected(config, tasks[i].item)

\* "dog cat" is rejected and passed over while "dog 1" is downloaded
C13_Witness ==
    /\ Len(tasks) = 2
    /\ Rejected(config, tasks[2].item)
    /\ tasks[2].pc = "done" /\ tasks[2].result = WorkerOk
    /\ tasks[1].fetched
    /\ DOMAIN files = {PathOf(config.output_path, tasks[1].filename)}


-----------------------------------------------------------------------------
\* Files

IsPrefix(p, q) == Len(p) <= Len(q) /\ SubSeq(q, 1, Len(p)) = p

\* the path task i writes to, derived from its item
PathOfTask(i) ==
    PathOf(config.output_path, filename_from_title(tasks[i].item.title.val))

\* no other item of the channel has a title that gives task i's filename
Unshared(i) ==
    /\ tasks[i].item.title.some
    /\ \A j \in TaskIds \ {i} :
          tasks[j].item.title.some =>
             filename_from_title(tasks[j].item.title.val)
                # filename_from_title(tasks[i].item.title.val)

\* no write of task i is under way
Settled(i) == tasks[i].inflight = <<>>

\* C16: for a worker whose filename no other item shares, the file's
\* content is always a prefix of the response body's chunks in arrival
\* order; once the worker has returned success (and no write is still
\* under way) it is the whole body; a worker that returned a read or
\* write failure leaves the prefix written so far.
C16_FileIsBodyPrefix ==
    \A i \in TaskIds :
       (Unshared(i) /\ tasks[i].opened /\ tasks[i].pc # "panicked") =>
          /\ IsPrefix(files[PathOfTask(i)], tasks[i].payload)
          /\ (tasks[i].pc = "done" /\ tasks[i].result = WorkerOk /\ Settled(i)) =>
                files[PathOfTask(i)] = tasks[i].payload

\* C17: whatever the interleaving, and whether the others succeed or
\* fail, the content of a file whose name no other item shares is
\* exactly the chunks its own worker wrote, in the order it wrote them.
C17_DistinctFilesNeverConflict ==
    \A i \in TaskIds :
       (Unshared(i) /\ tasks[i].opened) =>
          files[PathOfTask(i)] = tasks[i].written

\* two workers with distinct filenames have both written, one of them
\* failing after its first chunk
C17_Witness ==
    /\ Len(tasks) = 2
    /\ Unshared(1) /\ Unshared(2)
    /\ tasks[1].pc = "done" /\ tasks[1].result = WorkerErr("Body")
    /\ tasks[1].written = <<"c1">>
    /\ tasks[2].pc = "done" /\ tasks[2].result = WorkerOk
    /\ tasks[2].written = <<"c1", "c2">>
    /\ files[PathOfTask(1)] = <<"c1">>
    /\ files[PathOfTask(2)] = <<"c1", "c2">>


-----------------------------------------------------------------------------
\* Hung and aborted workers

Hung(i) == i \in TaskIds /\ tasks[i].pc = "hung"
Collected(j) == j \in TaskIds /\ tasks[j].joined
FailedUnlogged(j) ==
    /\ Collected(j)
    /\ tasks[j].pc = "done"
    /\ tasks[j].result.tag = "Err"
    /\ errorLog[j] # <<tasks[j].result>>

\* run still waits at downloads.next().await, and every worker that does
\* not hang has finished and been collected, a failed one with its entry
\* in the log
OnlyHungPending ==
    /\ run.pc = "collecting"
    /\ \A k \in TaskIds :
          Hung(k) \/ (Collected(k) /\ ~FailedUnlogged(k))

\* C18: a worker that hangs forever on a network operation stalls only
\* its own item: once a worker hangs, every worker that does not hang
\* itself still comes to an end and the orchestrator collects its
\* outcome, logging a failed one, while run itself keeps waiting; only a
\* join fault ends run before that.
C18_HungWorkerStallsOnlyItself ==
    (\E i \in TaskIds : Hung(i)) ~>
        (OnlyHungPending \/ run = Returned(WorkerErr("JoinError")))

\* the first worker hangs; the failure of the second has been collected
\* and logged, and run still waits
C18_Witness ==
    /\ Len(tasks) = 2
    /\ Hung(1)
    /\ tasks[2].pc = "done" /\ tasks[2].result.tag = "Err"
    /\ tasks[2].joined
    /\ errorLog[2] = <<tasks[2].result>>
    /\ run.pc = "collecting"

\* one step as seen from the fetch frame of task i
C19_Step(i) ==
    LET w == tasks[i]
        v == tasks'[i]
        f == w.fetch
        g == v.fetch
    IN  /\ w.opened => v.opened
        /\ g.awaiting =>
              /\ g.max_hops = HopBudget
              /\ g.nreq \in 1..g.max_hops
        /\ (f.awaiting /\ g.awaiting) => (g = f \/ g.nreq = f.nreq + 1)
        /\ (~f.awaiting /\ g.awaiting) =>
              (~w.opened /\ v.opened /\ g.nreq = 1)

\* C19: every fetch comes to an end when its requests are answered,
\* redirect cycles included: the fetcher is started once per item, in
\* the step that opens the file, with a budget of 10; each answer leads
\* to at most one more request and never to more than 10 in all; a
\* fetch that has ended is not started again.
C19_FetchTerminatesWithinBudget ==
    /\ [][\A i \in DOMAIN tasks \cap DOMAIN tasks' : C19_Step(i)]_vars
    /\ \A i \in 1..MaxItems :
          (i \in TaskIds /\ tasks[i].pc = "fetch") ~>
             (i \in TaskIds /\ tasks[i].pc # "fetch")

\* a redirect cycle has used the whole budget: the tenth request is out
C19_Witness ==
    \E i \in TaskIds :
       /\ tasks[i].pc = "fetch"
       /\ tasks[i].fetch.nreq = HopBudget
       /\ tasks[i].fetch.location = "http://b/"

\* C20: when the handle of an aborted task is yielded, run returns the
\* JoinError at once: from then on no handle is awaited and nothing is
\* logged, so a worker that fails afterwards has no log entry, and the
\* failures collected before keep theirs.
C20_JoinFaultEndsRun ==
    /\ [](JoinFault => run = Returned(WorkerErr("JoinError")))
    /\ [](\A i \in TaskIds :
             /\ ~tasks[i].joined => errorLog[i] = <<>>
             /\ (tasks[i].joined /\ tasks[i].pc = "done"
                   /\ tasks[i].result.tag = "Err")
                  => errorLog[i] = <<tasks[i].result>>)
    /\ [][run.pc = "returned" =>
             /\ run' = run
             /\ errorLog' = errorLog
             /\ \A i \in TaskIds : tasks'[i].joined = tasks[i].joined]_vars

\* run has returned the JoinError of the first task; the second failed
\* after that and is neither collected nor logged
C20_Witness ==
    /\ Len(tasks) = 2
    /\ tasks[1].pc = "panicked" /\ tasks[1].joined
    /\ run = Returned(WorkerErr("JoinError"))
    /\ tasks[2].pc = "done" /\ tasks[2].result.tag = "Err"
    /\ ~tasks[2].joined
    /\ errorLog[2] = <<>>

====
